---- MODULE Spec2Model ----
(***************************************************************************)
(* A model of the vizctrl widgets' core: the radial Dial (angle <-> value  *)
(* mapping, step rounding, pointer and keyboard handling), HeadingControl  *)
(* (normalisation and cardinal snapping on top of a Dial), the quantity    *)
(* module (convert, roundToStep) and the unit toggle, number field and     *)
(* preset buttons of SpeedControl and AltitudeControl.                     *)
(*                                                                         *)
(* Numbers.  A JavaScript number is modelled in exact arithmetic:          *)
(*   - Dial values, steps and headings are fixed-point integers counting   *)
(*     units of 10^-DecimalDigits (so 0.5 is Scale \div 2); one Dial       *)
(*     configuration counts units of 10^-TinyDigits, to carry a step that  *)
(*     Number.prototype.toString prints in exponent notation;              *)
(*   - angles are rationals counting units of pi/4, the resolution at      *)
(*     which Math.atan2 is exact on the eight compass directions;          *)
(*   - quantity values and unit factors are rationals [n, d];              *)
(*   - NaN is a separate value.  Binary floating-point rounding error is   *)
(*     outside the model.                                                  *)
(***************************************************************************)
EXTENDS Integers, Sequences, FiniteSets, TLC

VARIABLES
  props,      \* the DialProps of the current render (value, range, step, arc, disabled)
              \* and the resolution (digits) of its fixed-point numbers
  ref,        \* ref.current of the Dial: "svg" once mounted
  dragging,   \* dragging.current
  capture,    \* the pointer id captured by the svg (setPointerCapture), 0 if none
  last,       \* the most recent input event and the onChange calls the Dial made in it
  heading,    \* the HeadingControlProps of the current render (value, step, snap)
  hout,       \* the onChange calls HeadingControl made in the most recent event
  acall,      \* the most recent call of valueFromAngle: angle and result
  call,       \* the most recent call of convert: argument, target, outcome
  rcall,      \* the most recent call of roundToStep: arguments and result
  control     \* the props of a SpeedControl or AltitudeControl, its last event and onChange calls

vars == <<props, ref, dragging, capture, last, heading, hout, acall, call, rcall, control>>

dialVars == <<props, ref, dragging, capture, last>>

headingVars == <<heading, hout>>

pureVars == <<acall, call, rcall>>

----------------------------------------------------------------------------
(* Bounds of the model *)

\* fractional decimal digits the fixed-point numbers carry
DecimalDigits == 2

Scale == 10 ^ DecimalDigits

----------------------------------------------------------------------------
(* JavaScript numbers and Math *)

NaN == [nan |-> TRUE, x |-> 0]

Fin(x) == [nan |-> FALSE, x |-> x]

Abs(x) == IF x < 0 THEN -x ELSE x

Sign(x) == IF x < 0 THEN -1 ELSE IF x > 0 THEN 1 ELSE 0

\* Math.min / Math.max on finite numbers
MathMin(a, b) == IF a < b THEN a ELSE b

MathMax(a, b) == IF a > b THEN a ELSE b

\* Math.round(n / d) for d > 0: the nearest integer, a tie going to +infinity
MathRound(n, d) == (2 * n + d) \div (2 * d)

\* the number of decimal digits of the positive integer x
NumDigits(x) == CHOOSE l \in 1..10 : (x \div 10 ^ (l - 1)) \in 1..9

\* x without its trailing zeros
RECURSIVE StripZeros(_)
StripZeros(x) == IF x % 10 = 0 THEN StripZeros(x \div 10) ELSE x

\* Number.prototype.toString switches to exponent notation below 10^-ExponentDigits
ExponentDigits == 6

\* the number of characters after the '.' in s.toString(), for s counting units
\* of 10^-digits: the fraction digits of "0.25", or, in exponent notation, the
\* rest of the mantissa and the exponent ("5e-7" for "1.5e-7"); 0 without a '.'
FractionDigitsAt(s, digits) ==
  LET a == Abs(s)
  IN  IF a = 0
        THEN 0
        ELSE IF digits <= ExponentDigits \/ a >= 10 ^ (digits - ExponentDigits)
          THEN CHOOSE k \in 0..digits :
                 /\ a % 10 ^ (digits - k) = 0
                 /\ \A j \in 0..(k - 1) : a % 10 ^ (digits - j) # 0
          ELSE LET mantissa == NumDigits(StripZeros(a))
                   exponent == digits + 1 - NumDigits(a)
               IN  IF mantissa = 1
                     THEN 0
                     ELSE (mantissa - 1) + 2 + NumDigits(exponent)

\* the number of characters after the '.' in the decimal string of fixed-point s
FractionDigits(s) == FractionDigitsAt(s, DecimalDigits)

\* +x.toFixed(d) for x counting units of 10^-digits: x rounded to d decimals, a
\* tie going away from zero
ToFixedAt(x, d, digits) ==
  IF d >= digits
    THEN x
    ELSE LET q == 10 ^ (digits - d)
         IN  Sign(x) * ((2 * Abs(x) + q) \div (2 * q)) * q

\* +x.toFixed(d): x rounded to d decimals, a tie going away from zero
ToFixed(x, d) == ToFixedAt(x, d, DecimalDigits)

\* rational numbers

RECURSIVE GCD(_, _)
GCD(a, b) == IF b = 0 THEN a ELSE GCD(b, a % b)

\* the rational n / d (d > 0) in lowest terms
Rat(n, d) ==
  LET g == GCD(Abs(n), d)
  IN  [nan |-> FALSE, n |-> n \div g, d |-> d \div g]

RatNaN == [nan |-> TRUE, n |-> 0, d |-> 1]

\* a * b, with the common factors cancelled before multiplying
RatMul(a, b) ==
  IF a.nan \/ b.nan
    THEN RatNaN
    ELSE LET g1 == GCD(Abs(a.n), b.d)
             g2 == GCD(Abs(b.n), a.d)
         IN  Rat((a.n \div g1) * (b.n \div g2), (a.d \div g2) * (b.d \div g1))

\* a / b for b # 0
RatDiv(a, b) ==
  IF a.nan \/ b.nan
    THEN RatNaN
    ELSE RatMul(a, [nan |-> FALSE, n |-> Sign(b.n) * b.d, d |-> Abs(b.n)])

RatAdd(a, b) == Rat(a.n * b.d + b.n * a.d, a.d * b.d)

RatNeg(a) == [a EXCEPT !.n = -a.n]

\* a <= b, the denominators' common factor cancelled before multiplying
RatLe(a, b) ==
  LET g == GCD(a.d, b.d)
  IN  a.n * (b.d \div g) <= b.n * (a.d \div g)

\* Math.round of a rational
RatRound(a) == Rat(MathRound(a.n, a.d), 1)

\* Math.atan2(y, x) in units of pi/4, for (x, y) on one of the eight compass rays
Atan2(y, x) ==
  CASE x > 0 /\ y = 0 -> 0
    [] x > 0 /\ y > 0 -> 1
    [] x = 0 /\ y > 0 -> 2
    [] x < 0 /\ y > 0 -> 3
    [] x < 0 /\ y = 0 -> 4
    [] x < 0 /\ y < 0 -> -3
    [] x = 0 /\ y < 0 -> -2
    [] x > 0 /\ y < 0 -> -1
    [] OTHER -> 0

----------------------------------------------------------------------------
(* Dial: the pure functions of a render *)

size == 160

\* the svg's getBoundingClientRect(): the dial is laid out at the viewport origin
box == [left |-> 0, top |-> 0, width |-> size, height |-> size]

range == props.max - props.min

\* clamp with the upper bound forgotten
clampLowerOnly(v) == MathMax(props.min, v)

clamp(v) == MathMin(props.max, MathMax(props.min, v))

\* clamp applied to a number that may be NaN (Math.max and Math.min propagate NaN)
clampNum(r) == IF r.nan THEN NaN ELSE Fin(clamp(r.x))

\* round(v, s) of the Dial for the rational v = n / d (d > 0)
round(n, d, s) ==
  IF s = 0
    THEN NaN   \* v / 0 is an infinity or NaN; times 0 it is NaN
    ELSE Fin(ToFixedAt(MathRound(n, d * s) * s, FractionDigitsAt(s, props.digits),
                       props.digits))

\* angleFromValue(v): the angle, a rational number of units of pi/4; a range of
\* zero makes t, and the angle, an infinity or NaN
angleFromValue(v) ==
  IF range = 0
    THEN RatNaN
    ELSE LET t == Rat(Sign(range) * (v - props.min), Abs(range))
         IN  RatAdd(Rat(props.startAngle, 1),
                    RatMul(t, Rat(props.endAngle - props.startAngle, 1)))

\* valueFromAngle(ang) for a rational angle ang (units of pi/4), startAngle # endAngle
valueFromAngle(ang) ==
  LET den == props.endAngle - props.startAngle
      num == RatAdd(ang, Rat(-props.startAngle, 1))
      \* t = num / den
      t0  == RatMul(num, [nan |-> FALSE, n |-> Sign(den), d |-> Abs(den)])
      \* t = Math.min(1, Math.max(0, t))
      t   == IF RatLe(t0, Rat(0, 1)) THEN Rat(0, 1)
             ELSE IF RatLe(Rat(1, 1), t0) THEN Rat(1, 1) ELSE t0
      \* raw = min + t * range
      raw == RatAdd(Rat(props.min, 1), RatMul(t, Rat(range, 1)))
  IN  IF ang.nan THEN NaN ELSE clampNum(round(raw.n, raw.d, props.step))

\* the onChange calls of setFromPointer(clientX, clientY)
setFromPointer(clientX, clientY) ==
  IF ref # "svg"
    THEN <<>>
    ELSE LET x == clientX - (box.left + box.width \div 2)
             y == clientY - (box.top + box.height \div 2)
         IN  <<valueFromAngle(Rat(Atan2(y, x), 1))>>

\* the coarse increment without its factor of ten
coarseIsStep == props.step

coarse == MathMax(props.step * 10, props.step)

RecognisedKeys ==
  {"ArrowRight", "ArrowUp", "ArrowLeft", "ArrowDown", "PageUp", "PageDown", "Home", "End"}

\* keyNext with Home and End jumping by the coarse step instead of to the ends
keyNextHomeEndCoarse(key, shiftKey) ==
  LET delta == IF shiftKey THEN coarse ELSE props.step
  IN  CASE key \in {"ArrowRight", "ArrowUp"}  -> clamp(props.value + delta)
        [] key \in {"ArrowLeft", "ArrowDown"} -> clamp(props.value - delta)
        [] key \in {"PageUp", "End"}          -> clamp(props.value + coarse)
        [] key \in {"PageDown", "Home"}       -> clamp(props.value - coarse)

\* the value onKeyDown computes for a recognised key
keyNext(key, shiftKey) ==
  LET delta == IF shiftKey THEN coarse ELSE props.step
  IN  CASE key \in {"ArrowRight", "ArrowUp"}  -> clamp(props.value + delta)
        [] key \in {"ArrowLeft", "ArrowDown"} -> clamp(props.value - delta)
        [] key = "PageUp"   -> clamp(props.value + coarse)
        [] key = "PageDown" -> clamp(props.value - coarse)
        [] key = "Home"     -> props.min
        [] key = "End"      -> props.max

----------------------------------------------------------------------------
(* Dial: the event handlers *)

NoEvent ==
  [kind |-> "none", pointerId |-> 0, key |-> "", shift |-> FALSE,
   disabled |-> FALSE, prevented |-> FALSE, out |-> <<>>, afterHome |-> FALSE]

\* the event before this one was a Home key press the Dial handled
AfterHome == last.kind = "keydown" /\ last.key = "Home" /\ last.prevented

\* onPointerDown on the svg
DialPointerDown(pid, clientX, clientY) ==
  /\ dragging' = IF props.disabled THEN dragging ELSE TRUE
  /\ capture' = IF props.disabled THEN capture ELSE pid
  /\ last' = [kind |-> "pointerdown", pointerId |-> pid, key |-> "", shift |-> FALSE,
              disabled |-> props.disabled, prevented |-> FALSE,
              out |-> IF props.disabled THEN <<>> ELSE setFromPointer(clientX, clientY),
              afterHome |-> AfterHome]
  /\ UNCHANGED <<props, ref>>

\* the 'pointermove' listener without its test of dragging.current
DialPointerMoveAlways(pid, clientX, clientY) ==
  /\ last' = [kind |-> "pointermove", pointerId |-> pid, key |-> "", shift |-> FALSE,
              disabled |-> props.disabled, prevented |-> FALSE,
              out |-> setFromPointer(clientX, clientY),
              afterHome |-> AfterHome]
  /\ UNCHANGED <<props, ref, dragging, capture>>

\* the window 'pointermove' listener
DialPointerMove(pid, clientX, clientY) ==
  /\ last' = [kind |-> "pointermove", pointerId |-> pid, key |-> "", shift |-> FALSE,
              disabled |-> props.disabled, prevented |-> FALSE,
              out |-> IF ~dragging THEN <<>> ELSE setFromPointer(clientX, clientY),
              afterHome |-> AfterHome]
  /\ UNCHANGED <<props, ref, dragging, capture>>

\* the 'pointerup' listener committing the current value once more
DialPointerUpCommits(pid) ==
  /\ dragging' = FALSE
  /\ capture' = IF capture = pid THEN 0 ELSE capture
  /\ last' = [kind |-> "pointerup", pointerId |-> pid, key |-> "", shift |-> FALSE,
              disabled |-> props.disabled, prevented |-> FALSE,
              out |-> IF dragging THEN <<Fin(clamp(props.value))>> ELSE <<>>,
              afterHome |-> AfterHome]
  /\ UNCHANGED <<props, ref>>

\* the window 'pointerup' listener; the browser releases the capture of that pointer
DialPointerUp(pid) ==
  /\ dragging' = FALSE
  /\ capture' = IF capture = pid THEN 0 ELSE capture
  /\ last' = [kind |-> "pointerup", pointerId |-> pid, key |-> "", shift |-> FALSE,
              disabled |-> props.disabled, prevented |-> FALSE, out |-> <<>>,
              afterHome |-> AfterHome]
  /\ UNCHANGED <<props, ref>>

\* onKeyDown calling preventDefault before it looks at the key
DialKeyDownPreventsAll(key, shiftKey) ==
  LET handled == ~props.disabled /\ key \in RecognisedKeys
  IN  /\ last' = [kind |-> "keydown", pointerId |-> 0, key |-> key, shift |-> shiftKey,
                  disabled |-> props.disabled, prevented |-> ~props.disabled,
                  out |-> IF handled THEN <<Fin(keyNext(key, shiftKey))>> ELSE <<>>,
                  afterHome |-> AfterHome]
      /\ UNCHANGED <<props, ref, dragging, capture>>

\* onKeyDown on the svg
DialKeyDown(key, shiftKey) ==
  LET handled == ~props.disabled /\ key \in RecognisedKeys
  IN  /\ last' = [kind |-> "keydown", pointerId |-> 0, key |-> key, shift |-> shiftKey,
                  disabled |-> props.disabled, prevented |-> handled,
                  out |-> IF handled THEN <<Fin(keyNext(key, shiftKey))>> ELSE <<>>,
                  afterHome |-> AfterHome]
      /\ UNCHANGED <<props, ref, dragging, capture>>

----------------------------------------------------------------------------
(* The Dial on its own *)

PointerIds == {1, 2}

\* clientX / clientY of a pointer event: left or top edge, centre, right or bottom edge
PointerCoords == {0, size \div 2, size}

Keys == RecognisedKeys \cup {"Enter", "Tab"}

\* the resolution of a Dial whose step is below 10^-ExponentDigits
TinyDigits == ExponentDigits + 2

\* the range, step and arc a Dial instance is rendered with, and the number of
\* fractional decimal digits its fixed-point numbers carry; the last one has
\* the range 0..1 and a step of 1.5e-7
DialConfigs ==
  { [min |-> 0, max |-> 100 * Scale, step |-> Scale, startAngle |-> -3, endAngle |-> 3,
     digits |-> DecimalDigits],
    [min |-> 0, max |-> 10 * Scale, step |-> 3 * Scale, startAngle |-> -3, endAngle |-> 3,
     digits |-> DecimalDigits],
    [min |-> Scale, max |-> 10 * Scale, step |-> 2 * Scale, startAngle |-> -2, endAngle |-> 2,
     digits |-> DecimalDigits],
    [min |-> 0, max |-> 2 * Scale, step |-> Scale \div 2, startAngle |-> -3, endAngle |-> 3,
     digits |-> DecimalDigits],
    [min |-> -Scale, max |-> Scale, step |-> Scale \div 4, startAngle |-> -1, endAngle |-> 3,
     digits |-> DecimalDigits],
    [min |-> 0, max |-> 10 * Scale, step |-> 0, startAngle |-> -3, endAngle |-> 3,
     digits |-> DecimalDigits],
    [min |-> 0, max |-> 10 ^ TinyDigits, step |-> 15, startAngle |-> -3, endAngle |-> 3,
     digits |-> TinyDigits] }

\* the finite values a caller passes as `value`, in and out of [min, max]
CallerValues(c) ==
  {c.min - 5 * Scale, c.min, c.min + (c.max - c.min) \div 2, c.max - Scale \div 4,
   c.max, c.max + 5 * Scale}

DialProps(c, v, d) ==
  [value |-> v, min |-> c.min, max |-> c.max, step |-> c.step,
   startAngle |-> c.startAngle, endAngle |-> c.endAngle, disabled |-> d,
   digits |-> c.digits]

DialConfig ==
  [min |-> props.min, max |-> props.max, step |-> props.step,
   startAngle |-> props.startAngle, endAngle |-> props.endAngle, digits |-> props.digits]

NoHeading == [value |-> 0, step |-> Scale, snap |-> FALSE]

NoCall == [kind |-> "none"]

NoControl == [component |-> "none"]

Init ==
  /\ \E c \in DialConfigs : \E v \in CallerValues(c) : \E d \in BOOLEAN :
       props = DialProps(c, v, d)
  /\ ref = "svg"
  /\ control = NoControl
  /\ dragging = FALSE
  /\ capture = 0
  /\ last = NoEvent
  /\ heading = NoHeading
  /\ hout = <<>>
  /\ acall = NoCall
  /\ call = NoCall
  /\ rcall = NoCall

PointerDown ==
  \E pid \in PointerIds : \E x \in PointerCoords : \E y \in PointerCoords :
    /\ DialPointerDown(pid, x, y)
    /\ UNCHANGED <<headingVars, pureVars, control>>

PointerMove ==
  \E pid \in PointerIds : \E x \in PointerCoords : \E y \in PointerCoords :
    /\ DialPointerMove(pid, x, y)
    /\ UNCHANGED <<headingVars, pureVars, control>>

PointerUp ==
  \E pid \in PointerIds :
    /\ DialPointerUp(pid)
    /\ UNCHANGED <<headingVars, pureVars, control>>

KeyDown ==
  \E key \in Keys : \E shiftKey \in BOOLEAN :
    /\ DialKeyDown(key, shiftKey)
    /\ UNCHANGED <<headingVars, pureVars, control>>

\* the caller re-renders the Dial with a value and a disabled flag of its choice
Render ==
  \E v \in CallerValues(DialConfig) : \E d \in BOOLEAN :
    /\ props' = [props EXCEPT !.value = v, !.disabled = d]
    /\ UNCHANGED <<ref, dragging, capture, last, headingVars, pureVars, control>>

Next == PointerDown \/ PointerMove \/ PointerUp \/ KeyDown \/ Render

Spec == Init /\ [][Next]_vars

----------------------------------------------------------------------------
(* valueFromAngle as a pure function *)

\* angles handed to valueFromAngle range over -MaxAngle..MaxAngle (units of pi/4)
MaxAngle == 8

\* the Dial configurations plus HeadingControl's range with a step of 7 and an
\* arc that runs backwards
AngleConfigs ==
  DialConfigs \cup
    { [min |-> 0, max |-> 359 * Scale, step |-> 7 * Scale, startAngle |-> -3, endAngle |-> 3,
     digits |-> DecimalDigits],
      [min |-> 0, max |-> 10 * Scale, step |-> Scale, startAngle |-> 3, endAngle |-> -3,
     digits |-> DecimalDigits] }

InitAngle ==
  /\ \E c \in AngleConfigs : props = DialProps(c, c.min, FALSE)
  /\ ref = "svg"
  /\ control = NoControl
  /\ dragging = FALSE
  /\ capture = 0
  /\ last = NoEvent
  /\ heading = NoHeading
  /\ hout = <<>>
  /\ acall = NoCall
  /\ call = NoCall
  /\ rcall = NoCall

ValueFromAngleCall ==
  \E ang \in -MaxAngle..MaxAngle :
    /\ acall' = [kind |-> "valueFromAngle", ang |-> ang, value |-> valueFromAngle(Rat(ang, 1))]
    /\ UNCHANGED <<dialVars, headingVars, call, rcall, control>>

\* the values mapped to an angle and back are the multiples k * step with
\* |k| <= MaxMultiple, and min and max
MaxMultiple == 12

RoundTripValues ==
  {k * props.step : k \in -MaxMultiple..MaxMultiple} \cup {props.min, props.max}

\* valueFromAngle(angleFromValue(v))
AngleRoundTrip ==
  \E v \in RoundTripValues :
    /\ acall' = [kind |-> "roundTrip", v |-> v, ang |-> angleFromValue(v),
                 value |-> valueFromAngle(angleFromValue(v))]
    /\ UNCHANGED <<dialVars, headingVars, call, rcall, control>>

NextAngle == ValueFromAngleCall \/ AngleRoundTrip

SpecAngle == InitAngle /\ [][NextAngle]_vars

----------------------------------------------------------------------------
(* HeadingControl *)

cardinals == <<0, 90 * Scale, 180 * Scale, 270 * Scale>>

\* a % b of JavaScript for b > 0: the remainder has the sign of a
JsRem(a, b) == Sign(a) * (Abs(a) % b)

\* normalise with the shift by 360 forgotten
normaliseNoShift(v) == JsRem(v, 360 * Scale)

\* ((v % 360) + 360) % 360
normalise(v) == JsRem(JsRem(v, 360 * Scale) + 360 * Scale, 360 * Scale)

\* cardinals.reduce((acc, cur) => ..., cardinals[0]) for the heading deg
RECURSIVE reduceClosest(_, _, _)
reduceClosest(seq, acc, deg) ==
  IF seq = <<>>
    THEN acc
    ELSE reduceClosest(Tail(seq),
                       IF Abs(Head(seq) - deg) < Abs(acc - deg) THEN Head(seq) ELSE acc,
                       deg)

\* snapTo with the test `<= step` in place of `< step`
snapToInclusive(deg) ==
  LET closest == reduceClosest(cardinals, cardinals[1], deg)
  IN  IF Abs(closest - deg) <= heading.step THEN closest ELSE deg

\* the body of `if (snap) { ... }`: deg, or the closest cardinal when it is near
snapTo(deg) ==
  LET closest == reduceClosest(cardinals, cardinals[1], deg)
  IN  IF Abs(closest - deg) < heading.step THEN closest ELSE deg

\* the value handleChange(v) passes to onChange (NaN stays NaN through % and <)
handleChange(v) ==
  IF v.nan
    THEN NaN
    ELSE LET deg == normalise(v.x)
         IN  Fin(IF heading.snap THEN snapTo(deg) ELSE deg)

\* the onChange calls of HeadingControl for the onChange calls of its Dial
forward(outs) == [i \in 1..Len(outs) |-> handleChange(outs[i])]

\* the props HeadingControl renders its Dial with
HeadingDialProps(h) ==
  [value |-> h.value, min |-> 0, max |-> 359 * Scale, step |-> h.step,
   startAngle |-> -3, endAngle |-> 3, disabled |-> FALSE, digits |-> DecimalDigits]

\* integer degrees handed straight to handleChange range over -MaxDeg..MaxDeg
MaxDeg == 400

\* with a step of 100 a heading can be within one step of two cardinals
HeadingSteps == {Scale \div 2, Scale, 2 * Scale, 100 * Scale}

\* headings a caller passes as `value`; the last is outside 0..359
HeadingValues == {0, 91 * Scale, 359 * Scale, -10 * Scale}

InitHeading ==
  /\ \E v \in HeadingValues : \E s \in HeadingSteps : \E b \in BOOLEAN :
       heading = [value |-> v, step |-> s, snap |-> b]
  /\ props = HeadingDialProps(heading)
  /\ ref = "svg"
  /\ control = NoControl
  /\ dragging = FALSE
  /\ capture = 0
  /\ last = NoEvent
  /\ hout = <<>>
  /\ acall = NoCall
  /\ call = NoCall
  /\ rcall = NoCall

HPointerDown ==
  \E pid \in PointerIds : \E x \in PointerCoords : \E y \in PointerCoords :
    /\ DialPointerDown(pid, x, y)
    /\ hout' = forward(last'.out)
    /\ UNCHANGED <<heading, pureVars, control>>

HPointerMove ==
  \E pid \in PointerIds : \E x \in PointerCoords : \E y \in PointerCoords :
    /\ DialPointerMove(pid, x, y)
    /\ hout' = forward(last'.out)
    /\ UNCHANGED <<heading, pureVars, control>>

HPointerUp ==
  \E pid \in PointerIds :
    /\ DialPointerUp(pid)
    /\ hout' = forward(last'.out)
    /\ UNCHANGED <<heading, pureVars, control>>

HKeyDown ==
  \E key \in Keys : \E shiftKey \in BOOLEAN :
    /\ DialKeyDown(key, shiftKey)
    /\ hout' = forward(last'.out)
    /\ UNCHANGED <<heading, pureVars, control>>

\* a click on the i-th of the buttons N, E, S, W
CardinalClick ==
  \E i \in 0..3 :
    /\ hout' = <<Fin(i * 90 * Scale)>>
    /\ last' = [NoEvent EXCEPT !.kind = "click", !.key = <<"N", "E", "S", "W">>[i + 1]]
    /\ UNCHANGED <<props, ref, dragging, capture, heading, pureVars, control>>

\* handleChange applied to an integer number of degrees d.  It reads only the
\* step and snap props, which no action changes, so the model applies it once,
\* before the first input event.
HandleChangeCall ==
  \E d \in -MaxDeg..MaxDeg :
    /\ last = NoEvent
    /\ hout' = <<handleChange(Fin(d * Scale))>>
    /\ last' = [NoEvent EXCEPT !.kind = "handleChange", !.out = <<Fin(d * Scale)>>]
    /\ UNCHANGED <<props, ref, dragging, capture, heading, pureVars, control>>

\* the caller re-renders HeadingControl with a value of its choice
HRender ==
  \E v \in HeadingValues :
    /\ heading' = [heading EXCEPT !.value = v]
    /\ props' = HeadingDialProps(heading')
    /\ UNCHANGED <<ref, dragging, capture, last, hout, pureVars, control>>

NextHeading ==
  \/ HPointerDown \/ HPointerMove \/ HPointerUp \/ HKeyDown
  \/ CardinalClick \/ HandleChangeCall \/ HRender

SpecHeading == InitHeading /\ [][NextHeading]_vars

----------------------------------------------------------------------------
(* quantity: convert *)

\* the factors table: 0.3048, 1000 / 3600, 1609.344 / 3600 and 1852 / 3600 in lowest terms
factors ==
  [m   |-> Rat(1, 1),
   ft  |-> Rat(381, 1250),
   ms  |-> Rat(1, 1),
   kmh |-> Rat(5, 18),
   mph |-> Rat(1397, 3125),
   kts |-> Rat(463, 900)]

\* property names every object literal inherits from Object.prototype
InheritedKeys == {"toString"}

\* factors[u]: an own property, else an inherited one (a function), else undefined
factorOf(u) ==
  IF u \in DOMAIN factors
    THEN [type |-> "number", value |-> factors[u]]
    ELSE IF u \in InheritedKeys
      THEN [type |-> "function", value |-> RatNaN]
      ELSE [type |-> "undefined", value |-> RatNaN]

\* convert with the multiplication by fromFactor forgotten
convertNoFromFactor(qty, to) ==
  LET fromFactor == factorOf(qty.unit)
      toFactor   == factorOf(to)
  IN  IF fromFactor.type = "undefined" \/ toFactor.type = "undefined"
        THEN [ok |-> FALSE, q |-> [value |-> RatNaN, unit |-> to]]
        ELSE [ok |-> TRUE, q |-> [value |-> RatDiv(qty.value, toFactor.value), unit |-> to]]

\* convert(qty, to): the Quantity returned (ok), or the Error thrown (~ok).
\* A function used as a factor is NaN in the arithmetic.
convert(qty, to) ==
  LET fromFactor == factorOf(qty.unit)
      toFactor   == factorOf(to)
  IN  IF fromFactor.type = "undefined" \/ toFactor.type = "undefined"
        THEN [ok |-> FALSE, q |-> [value |-> RatNaN, unit |-> to]]
        ELSE LET canonical == RatMul(qty.value, fromFactor.value)
             IN  [ok |-> TRUE, q |-> [value |-> RatDiv(canonical, toFactor.value), unit |-> to]]

\* magnitudes of the quantity values converted: n / d with |n| <= MaxQuantity
MaxQuantity == 6

QuantityValues ==
  {Rat(n, d) : n \in -MaxQuantity..MaxQuantity, d \in {1, 3}}
    \cup {Rat(100, 1), Rat(1000, 1)}

\* the six units, a name with no property in factors, and an inherited property name
UnitNames == DOMAIN factors \cup {"yd"} \cup InheritedKeys

NoResult == [ok |-> FALSE, q |-> [value |-> RatNaN, unit |-> ""]]

InitConvert ==
  /\ \E v \in QuantityValues : \E u \in UnitNames : \E to \in UnitNames :
       call = [kind |-> "input", arg |-> [value |-> v, unit |-> u], to |-> to,
               res |-> NoResult, origin |-> [value |-> v, unit |-> u]]
  /\ props = HeadingDialProps(NoHeading)
  /\ ref = "svg"
  /\ control = NoControl
  /\ dragging = FALSE
  /\ capture = 0
  /\ last = NoEvent
  /\ heading = NoHeading
  /\ hout = <<>>
  /\ acall = NoCall
  /\ rcall = NoCall

\* convert(arg, to)
Convert ==
  /\ call.kind = "input"
  /\ call' = [call EXCEPT !.kind = "done", !.res = convert(call.arg, call.to)]
  /\ UNCHANGED <<dialVars, headingVars, acall, rcall, control>>

\* convert(convert(arg, to), arg.unit): the result converted back
ConvertBack ==
  /\ call.kind = "done"
  /\ call.res.ok
  /\ call' = [kind |-> "back", arg |-> call.res.q, to |-> call.arg.unit,
              res |-> convert(call.res.q, call.arg.unit), origin |-> call.arg]
  /\ UNCHANGED <<dialVars, headingVars, acall, rcall, control>>

NextConvert == Convert \/ ConvertBack

SpecConvert == InitConvert /\ [][NextConvert]_vars

----------------------------------------------------------------------------
(* quantity: roundToStep *)

\* decimals(n): the number of decimal places in n.toString()
decimals(n) == FractionDigits(n)

\* roundToStep returning k rather than k * step
roundToStepNoMultiply(v, step) ==
  LET r == IF step = 0
             THEN NaN
             ELSE Fin(ToFixed(MathRound(v, step) * Scale, decimals(step)))
  IN  IF r.nan THEN v ELSE r.x

\* roundToStep(v, step) for step >= 0; v / 0 makes r NaN, which is not finite
roundToStep(v, step) ==
  LET r == IF step = 0
             THEN NaN
             ELSE Fin(ToFixed(MathRound(v, step) * step, decimals(step)))
  IN  IF r.nan THEN v ELSE r.x

\* the values rounded are the hundredths from -MaxRound to MaxRound
MaxRound == 350

RoundValues == {i * (Scale \div 100) : i \in -MaxRound..MaxRound}

RoundSteps == {0, Scale \div 4, Scale \div 2, Scale, 3 * Scale, 10 * Scale}

InitRound ==
  /\ \E v \in RoundValues : \E s \in RoundSteps :
       rcall = [kind |-> "input", v0 |-> v, v |-> v, step |-> s, r |-> 0]
  /\ props = HeadingDialProps(NoHeading)
  /\ ref = "svg"
  /\ control = NoControl
  /\ dragging = FALSE
  /\ capture = 0
  /\ last = NoEvent
  /\ heading = NoHeading
  /\ hout = <<>>
  /\ acall = NoCall
  /\ call = NoCall

\* roundToStep(v, step)
RoundToStep ==
  /\ rcall.kind = "input"
  /\ rcall' = [rcall EXCEPT !.kind = "done", !.r = roundToStep(rcall.v, rcall.step)]
  /\ UNCHANGED <<dialVars, headingVars, acall, call, control>>

\* roundToStep(roundToStep(v, step), step): the result rounded again
RoundAgain ==
  /\ rcall.kind = "done"
  /\ rcall' = [rcall EXCEPT !.kind = "again", !.v = rcall.r,
                            !.r = roundToStep(rcall.r, rcall.step)]
  /\ UNCHANGED <<dialVars, headingVars, acall, call, control>>

NextRound == RoundToStep \/ RoundAgain

SpecRound == InitRound /\ [][NextRound]_vars

----------------------------------------------------------------------------
(* SpeedControl and AltitudeControl *)

\* the units of a control's UnitToggle
unitsOf(component) ==
  IF component = "speed" THEN {"ms", "kmh", "mph", "kts"} ELSE {"ft", "m"}

\* toCurrent(q) of a render whose value carries unit u
toCurrent(u, q) == IF q.unit = u THEN q ELSE convert(q, u).q

\* vmin of a render whose value carries unit u
vmin(u) ==
  IF control.min # <<>> THEN toCurrent(u, control.min[1]).value ELSE Rat(0, 1)

\* vmax of a render whose value carries unit u: the max prop, else the unit's default
vmax(u) ==
  IF control.max # <<>>
    THEN toCurrent(u, control.max[1]).value
    ELSE IF control.component = "speed"
      THEN IF u = "ms" THEN Rat(100, 1)
           ELSE IF u = "kmh" THEN Rat(200, 1)
           ELSE IF u = "mph" THEN Rat(125, 1)
           ELSE Rat(100, 1)
      ELSE IF u = "ft" THEN Rat(60000, 1) ELSE Rat(18288, 1)

\* stp of a render whose value carries unit u
stp(u) ==
  IF control.step # <<>>
    THEN control.step[1]
    ELSE IF control.component = "speed"
      THEN IF u = "ms" THEN Rat(1, 2) ELSE Rat(5, 1)
      ELSE IF u = "ft" THEN Rat(10, 1) ELSE Rat(5, 1)

\* the module-level clamp(n, a, b) of the two controls
clampBetween(n, a, b) ==
  LET lo == IF RatLe(n, a) THEN a ELSE n
  IN  IF RatLe(b, lo) THEN b ELSE lo

\* the UnitToggle's onChange handler: (u) => onChange(convert(value, u))
unitToggle(u) == <<convert(control.value, u).q>>

\* the NumberField's onChange handler of the control
numberField(n) ==
  LET u == control.value.unit
  IN  <<[value |-> clampBetween(n, vmin(u), vmax(u)), unit |-> u]>>

\* the NumberField's onKeyDown: its value prop is Math.round(value.value)
numberFieldKey(key) ==
  LET u == control.value.unit
      value == RatRound(control.value.value)
  IN  IF key = "ArrowUp" THEN numberField(RatAdd(value, stp(u)))
      ELSE IF key = "ArrowDown" THEN numberField(RatAdd(value, RatNeg(stp(u))))
      ELSE <<>>

\* the onClick of the preset button i
presetClick(i) ==
  LET u  == control.value.unit
      pv == RatRound(toCurrent(u, control.presets[i]).value)
  IN  <<[value |-> pv, unit |-> u]>>

Quantity(n, u) == [value |-> Rat(n, 1), unit |-> u]

\* the presets prop: the lists of the demo application, or the maxima of two
\* units' default ranges
ControlPresets(component) ==
  IF component = "speed"
    THEN {<<Quantity(10, "ms"), Quantity(50, "kmh"), Quantity(100, "mph")>>,
          <<Quantity(100, "ms"), Quantity(200, "kmh")>>}
    ELSE {<<Quantity(500, "ft"), Quantity(1000, "ft"), Quantity(10000, "ft")>>,
          <<Quantity(60000, "ft"), Quantity(18288, "m")>>}

\* the quantities a caller passes as `value`: the bounds of every unit's default
\* range, values inside it, and one value above it
ControlValues(component) ==
  IF component = "speed"
    THEN {Quantity(0, "ms"), Quantity(50, "ms"), Quantity(100, "ms"), Quantity(150, "ms"),
          Quantity(50, "kmh"), Quantity(200, "kmh"), Quantity(125, "mph"),
          Quantity(100, "kts"), [value |-> Rat(75, 2), unit |-> "kts"]}
    ELSE {Quantity(0, "ft"), Quantity(1000, "ft"), Quantity(60000, "ft"),
          Quantity(70000, "ft"), Quantity(18288, "m"), [value |-> Rat(3048, 10), unit |-> "m"]}

\* the min and max props: absent, or a range narrower than the default one
ControlRanges(component) ==
  IF component = "speed"
    THEN {[min |-> <<>>, max |-> <<>>],
          [min |-> <<Quantity(10, "kmh")>>, max |-> <<Quantity(50, "ms")>>]}
    ELSE {[min |-> <<>>, max |-> <<>>],
          [min |-> <<Quantity(100, "m")>>, max |-> <<Quantity(40000, "ft")>>]}

\* the numbers typed into the NumberField
NumberInputs == {Rat(-5, 1), Rat(0, 1), Rat(42, 1), Rat(85, 2), Rat(250, 1), Rat(70000, 1)}

InitControl ==
  /\ \E component \in {"speed", "altitude"} :
       \E v \in ControlValues(component) : \E r \in ControlRanges(component) :
       \E ps \in ControlPresets(component) :
         control = [component |-> component, value |-> v, min |-> r.min, max |-> r.max,
                    step |-> <<>>, presets |-> ps,
                    event |-> "none", out |-> <<>>]
  /\ props = HeadingDialProps(NoHeading)
  /\ ref = "svg"
  /\ dragging = FALSE
  /\ capture = 0
  /\ last = NoEvent
  /\ heading = NoHeading
  /\ hout = <<>>
  /\ acall = NoCall
  /\ call = NoCall
  /\ rcall = NoCall

UnitToggleClick ==
  \E u \in unitsOf(control.component) :
    /\ control' = [control EXCEPT !.event = "toggle", !.out = unitToggle(u)]
    /\ UNCHANGED <<dialVars, headingVars, pureVars>>

NumberFieldChange ==
  \E n \in NumberInputs :
    /\ control' = [control EXCEPT !.event = "number", !.out = numberField(n)]
    /\ UNCHANGED <<dialVars, headingVars, pureVars>>

NumberFieldKeyDown ==
  \E key \in {"ArrowUp", "ArrowDown", "Enter"} :
    /\ control' = [control EXCEPT !.event = "number", !.out = numberFieldKey(key)]
    /\ UNCHANGED <<dialVars, headingVars, pureVars>>

PresetClick ==
  \E i \in 1..Len(control.presets) :
    /\ control' = [control EXCEPT !.event = "preset", !.out = presetClick(i)]
    /\ UNCHANGED <<dialVars, headingVars, pureVars>>

\* the caller re-renders the control with a quantity of its choice
ControlRender ==
  \E v \in ControlValues(control.component) :
    /\ control' = [control EXCEPT !.value = v, !.event = "none", !.out = <<>>]
    /\ UNCHANGED <<dialVars, headingVars, pureVars>>

NextControl ==
  UnitToggleClick \/ NumberFieldChange \/ NumberFieldKeyDown \/ PresetClick \/ ControlRender

SpecControl == InitControl /\ [][NextControl]_vars

----------------------------------------------------------------------------
(* Claims about the Dial, checked under Spec *)

\* the Dial's range and step are legal: min < max and step > 0
LegalDial == props.min < props.max /\ props.step > 0

\* C1: with min < max, step > 0 and a finite value, every value the Dial passes
\* to onChange, from a pointer-down, a pointer-move or a key press, is finite
\* and lies in [min, max].
C1_EmittedInRange ==
  LegalDial =>
    \A i \in 1..Len(last.out) :
      /\ ~last.out[i].nan
      /\ props.min <= last.out[i].x
      /\ last.out[i].x <= props.max

\* a drag emitted a value and so did an arrow key pressed on a value above max
C1_Witness ==
  /\ LegalDial
  /\ \/ /\ last.kind = "pointermove"
        /\ Len(last.out) = 1
        /\ last.out[1].x \notin {props.min, props.max}
     \/ /\ last.kind = "keydown"
        /\ last.key = "ArrowRight"
        /\ props.value > props.max
        /\ last.out = <<Fin(props.max)>>

\* C5: on an enabled Dial a Home key press emits exactly min and an End key
\* press emits exactly max, one value each, whatever the caller's value is;
\* so Home followed by End emits min and then max.
C5_HomeEndEmitBounds ==
  (last.kind = "keydown" /\ ~last.disabled) =>
    /\ last.key = "Home" => last.out = <<Fin(props.min)>>
    /\ last.key = "End" => last.out = <<Fin(props.max)>>

\* End was pressed right after Home, with a value that is neither min nor max
C5_Witness ==
  /\ last.kind = "keydown"
  /\ last.key = "End"
  /\ last.afterHome
  /\ ~last.disabled
  /\ last.out = <<Fin(props.max)>>
  /\ props.value \notin {props.min, props.max}

\* C10: an event delivered while the Dial is disabled causes no onChange call.
C10_DisabledIsInert == last.disabled => last.out = <<>>

----------------------------------------------------------------------------
(* Claims about valueFromAngle, checked under SpecAngle *)

\* C2: for an arc with startAngle < endAngle, min < max and step > 0,
\* valueFromAngle returns exactly min for an angle below startAngle and exactly
\* max for an angle above endAngle.
C2_OutsideArcGivesBound ==
  (acall.kind = "valueFromAngle" /\ LegalDial /\ props.startAngle < props.endAngle) =>
    /\ acall.ang < props.startAngle => acall.value = Fin(props.min)
    /\ acall.ang > props.endAngle => acall.value = Fin(props.max)

----------------------------------------------------------------------------
(* Claims about HeadingControl, checked under SpecHeading *)

\* an event that went through handleChange: every event but a button click
ThroughHandleChange == last.kind \notin {"none", "click"}

\* C3: every value HeadingControl passes to onChange, from a dial pointer
\* event, a key press or a cardinal button, lies in [0, 360); and with snap
\* disabled the value emitted for d (any integer, negative and >= 360
\* included) is congruent to d modulo 360.
C3_HeadingNormalised ==
  /\ \A i \in 1..Len(hout) :
       /\ ~hout[i].nan
       /\ 0 <= hout[i].x
       /\ hout[i].x < 360 * Scale
  /\ (ThroughHandleChange /\ ~heading.snap) =>
       /\ Len(hout) = Len(last.out)
       /\ \A i \in 1..Len(hout) : (hout[i].x - last.out[i].x) % (360 * Scale) = 0

\* handleChange was handed -370 with snap disabled and emitted 350
C3_Witness ==
  /\ last.kind = "handleChange"
  /\ ~heading.snap
  /\ last.out = <<Fin(-370 * Scale)>>
  /\ hout = <<Fin(350 * Scale)>>

\* the cardinals within one step of the heading deg
CardinalsNear(deg) ==
  {c \in {cardinals[j] : j \in 1..Len(cardinals)} : Abs(c - deg) < heading.step}

----------------------------------------------------------------------------
(* Claims about convert, checked under SpecConvert *)

\* the dimension groups: length {m, ft} and speed {ms, kmh, mph, kts}
Dimension(u) ==
  IF u \in {"m", "ft"} THEN "length"
  ELSE IF u \in {"ms", "kmh", "mph", "kts"} THEN "speed"
  ELSE "none"

Registered(u) == Dimension(u) # "none"

C7_CrossDimensionFails ==
  (/\ call.kind = "done"
   /\ Registered(call.arg.unit)
   /\ Registered(call.to)
   /\ Dimension(call.arg.unit) # Dimension(call.to)) =>
    ~call.res.ok

\* C8: convert raises an error whenever the source or the target unit has no
\* registered factor.
C8_UnregisteredFails ==
  (call.kind = "done" /\ (~Registered(call.arg.unit) \/ ~Registered(call.to))) =>
    ~call.res.ok

----------------------------------------------------------------------------
(* Claims about roundToStep, checked under SpecRound *)

----------------------------------------------------------------------------
(* Claims about the Dial's interaction state, checked under Spec *)

\* C11: the Dial emits on a pointer-move only while an interaction is active.
\* A pointer-down on an enabled Dial makes it active and emits one value, a
\* pointer-up makes it inactive, nothing else changes whether it is active,
\* and a pointer-move while it is inactive (before any pointer-down, or after
\* a pointer-up and before the next pointer-down) emits nothing.
C11_MoveEmitsOnlyWhileActive ==
  /\ [](/\ (last.kind = "pointermove" /\ ~dragging) => last.out = <<>>
        /\ (last.kind = "pointerdown" /\ ~last.disabled) =>
             (dragging /\ Len(last.out) = 1)
        /\ last.kind = "pointerup" => ~dragging
        /\ last.kind = "none" => ~dragging)
  /\ [][dragging' # dragging => last'.kind \in {"pointerdown", "pointerup"}]_vars

\* a pointer-move emitted nothing after a drag was started by one pointer and
\* ended by the pointer-up of another
C11_Witness ==
  /\ last.kind = "pointermove"
  /\ ~dragging
  /\ capture # 0
  /\ last.out = <<>>

\* C12: one input event (pointer-down, pointer-move, pointer-up or key press)
\* causes at most one onChange call, and a pointer-up causes none.
C12_AtMostOneEmission ==
  /\ Len(last.out) <= 1
  /\ last.kind = "pointerup" => last.out = <<>>

\* a pointer-up that ended a drag emitted nothing
C12_Witness ==
  /\ last.kind = "pointerup"
  /\ last.pointerId = 1
  /\ capture = 2
  /\ last.out = <<>>

----------------------------------------------------------------------------
(* Claims about the step grid *)

\* v is a multiple of the positive step
MultipleOfStep(v) == v % props.step = 0

\* C16, checked under SpecAngle: with min < max, step > 0 and
\* startAngle # endAngle, valueFromAngle(angleFromValue(v)) = v for every v in
\* [min, max] that is a multiple of step.
C16_AngleValueRoundTrip ==
  (/\ acall.kind = "roundTrip"
   /\ LegalDial
   /\ props.startAngle # props.endAngle
   /\ props.min <= acall.v
   /\ acall.v <= props.max
   /\ MultipleOfStep(acall.v)) =>
    acall.value = Fin(acall.v)

\* C19, checked under Spec: with min < max and step > 0, every value the Dial
\* emits from a pointer-down or a pointer-move is a multiple of step, or min,
\* or max.
C19_PointerValuesOnStepGrid ==
  (LegalDial /\ last.kind \in {"pointerdown", "pointermove"}) =>
    \A i \in 1..Len(last.out) :
      /\ ~last.out[i].nan
      /\ \/ MultipleOfStep(last.out[i].x)
         \/ last.out[i].x = props.min
         \/ last.out[i].x = props.max

----------------------------------------------------------------------------
(* Claims about SpeedControl and AltitudeControl, checked under SpecControl *)

\* q's value lies in the range the control uses when its value carries q's unit
WithinRange(q) ==
  /\ ~q.value.nan
  /\ RatLe(vmin(q.unit), q.value)
  /\ RatLe(q.value, vmax(q.unit))

\* C13: with a current value within the range of the current unit, every
\* quantity the control passes to onChange from the unit toggle, the number
\* field or a preset button has a value within the range the control uses for
\* the unit that quantity carries.
C13_ControlEmitsWithinRange ==
  (control.component # "none" /\ control.event # "none" /\ WithinRange(control.value)) =>
    \A i \in 1..Len(control.out) : WithinRange(control.out[i])

----------------------------------------------------------------------------
(* Claims about pointers other than the dragging one, checked under Spec *)

\* C14: a drag is bound to the pointer that started it: while the Dial is
\* dragged by pointer p (dragging.current set, p captured), a pointer-move of
\* another pointer q makes it emit nothing and a pointer-up of q does not end
\* the drag.
C14_DragBoundToItsPointer ==
  [][(dragging /\ last'.pointerId # capture) =>
       /\ last'.kind = "pointermove" => last'.out = <<>>
       /\ last'.kind = "pointerup" => dragging']_vars

----------------------------------------------------------------------------
(* Claims about a step of zero, checked under Spec *)

\* C15: with a step of zero the rounding the Dial applies to a pointer value
\* returns the unrounded input, as roundToStep does, so the value a pointer
\* event emits is a finite number, not NaN.
C15_ZeroStepStaysFinite ==
  (props.step = 0 /\ last.kind \in {"pointerdown", "pointermove"}) =>
    \A i \in 1..Len(last.out) : ~last.out[i].nan

----------------------------------------------------------------------------
(* Claims about the keyboard, checked under Spec *)

ArrowKeys == {"ArrowRight", "ArrowUp", "ArrowLeft", "ArrowDown"}

\* C17: on an enabled Dial (min <= max) ArrowRight and ArrowUp emit
\* value + inc restricted to [min, max], ArrowLeft and ArrowDown emit
\* value - inc restricted to [min, max], where inc is step, or with the shift
\* key held the larger of step * 10 and step.
C17_ArrowKeysStep ==
  [][(/\ last' # last
      /\ last'.kind = "keydown"
      /\ last'.key \in ArrowKeys
      /\ ~props.disabled
      /\ props.min <= props.max) =>
       LET inc == IF ~last'.shift THEN props.step
                  ELSE IF props.step * 10 > props.step THEN props.step * 10 ELSE props.step
           target == IF last'.key \in {"ArrowRight", "ArrowUp"}
                       THEN props.value + inc
                       ELSE props.value - inc
           restricted == IF target < props.min THEN props.min
                         ELSE IF target > props.max THEN props.max ELSE target
       IN  last'.out = <<Fin(restricted)>>]_vars

\* shift + ArrowLeft moved a value by ten steps without reaching min
C17_Witness ==
  /\ last.kind = "keydown"
  /\ last.key = "ArrowLeft"
  /\ last.shift
  /\ ~last.disabled
  /\ props.step > 0
  /\ props.value - 10 * props.step > props.min
  /\ last.out = <<Fin(props.value - 10 * props.step)>>

\* C18: a key press with a key other than the arrows, PageUp, PageDown, Home
\* and End calls neither onChange nor preventDefault and leaves the drag state
\* as it was.
C18_OtherKeysIgnored ==
  [][(last'.kind = "keydown" /\ last'.key \notin RecognisedKeys) =>
       /\ last'.out = <<>>
       /\ ~last'.prevented
       /\ dragging' = dragging
       /\ capture' = capture]_vars

\* Enter was pressed on an enabled Dial in the middle of a drag
C18_Witness ==
  /\ last.kind = "keydown"
  /\ last.key = "Enter"
  /\ ~last.disabled
  /\ dragging
  /\ last.out = <<>>
  /\ ~last.prevented

====
